---- MODULE Spec2Model ----
(***************************************************************************)
(* A model of the CSV loader (datahelper.read_csv_any_encoding), the       *)
(* rule-based answerer (app.get_answer_to_question) and the Streamlit      *)
(* script of app.py (feature examination, question list, report).          *)
(*                                                                         *)
(* Three specifications share the module:                                  *)
(*   SpecLoad    the loader, on an uploaded stream or on a path            *)
(*   SpecAnswer  the answerer, on a question and a dataframe               *)
(*   SpecApp     the script runs of app.py after a dataset is loaded       *)
(***************************************************************************)
EXTENDS Integers, Sequences, FiniteSets, TLC

VARIABLES
    \* ---- loader (datahelper.py) ----
    content,    \* the bytes of the uploaded file / of the file at the path
    guess,      \* what chardet.detect answers for the whole content
    kind,       \* "stream" (has .read) or "path"
    exists,     \* path branch: whether open(path) finds the file
    pos,        \* stream branch: the read position of file_obj
    last,       \* the most recent call of read_csv_any_encoding
    prev,       \* the call before it, when the caller did nothing in between
    seen,       \* what the caller's own last read of the stream returned
    \* ---- answerer (app.py 9-24) ----
    question,   \* the question string, a sequence of characters
    df,         \* the dataframe
    answer,     \* the outcome of get_answer_to_question(question, df)
    \* ---- script (app.py 29-178) ----
    questions,  \* st.session_state.questions
    clicks,     \* how often "Add Question" was clicked
    title,      \* the report title text input
    run,        \* what the latest script run did in the question section
    explored,   \* what the latest call of explore_variable rendered
    report      \* the report of the latest run of "Generate Report"

loadVars   == <<content, guess, kind, exists, pos, last, prev, seen>>
answerVars == <<question, answer>>
appVars    == <<questions, clicks, title, run, explored, report>>
vars       == <<loadVars, answerVars, df, appVars>>

(***************************************************************************)
(* Bytes and characters.  A byte is one of five values: 0x61 "a", 0x0A     *)
(* (line feed) and the high bytes 0xE9, 0xC3, 0xA9.  0xC3 0xA9 is the      *)
(* UTF-8 form of U+00E9, 0xE9 0xA9 0xA9 the UTF-8 form of U+9A69, and      *)
(* 0xE9 alone is U+00E9 in ISO-8859-1.  The files are one-column CSV.      *)
(***************************************************************************)
MaxLen == 4

Byte     == {"a", "LF", "E9", "C3", "A9"}
HighByte == {"E9", "C3", "A9"}

RECURSIVE SeqsUpTo(_, _)
SeqsUpTo(S, n) ==
    IF n = 0 THEN {<<>>}
    ELSE LET shorter == SeqsUpTo(S, n - 1)
         IN  shorter \cup {Append(s, b) : s \in {t \in shorter : Len(t) = n - 1}, b \in S}

Contents == SeqsUpTo(Byte, MaxLen)

DecodeError == <<"UnicodeDecodeError">>

\* codecs: bytes.decode("ascii")
DecodeAscii(bs) ==
    IF \E i \in 1..Len(bs) : bs[i] \in HighByte THEN DecodeError ELSE bs

\* codecs: bytes.decode("iso-8859-1"); every byte is one character
DecodeLatin1(bs) ==
    [i \in 1..Len(bs) |->
        CASE bs[i] = "E9" -> "e_acute"
          [] bs[i] = "C3" -> "A_tilde"
          [] bs[i] = "A9" -> "copyright"
          [] OTHER        -> bs[i]]

\* codecs: bytes.decode("utf-8"), strict: a lead byte needs its continuation bytes
RECURSIVE DecodeUtf8(_)
DecodeUtf8(bs) ==
    IF bs = <<>> THEN <<>>
    ELSE LET b == Head(bs)
             n == IF b \notin HighByte THEN 1
                  ELSE IF b = "C3" /\ Len(bs) >= 2 /\ bs[2] = "A9" THEN 2
                  ELSE IF b = "E9" /\ Len(bs) >= 3 /\ bs[2] = "A9" /\ bs[3] = "A9" THEN 3
                  ELSE 0
             c == CASE n = 1 -> b
                    [] n = 2 -> "e_acute"
                    [] n = 3 -> "U9A69"
                    [] OTHER -> "invalid"
         IN  IF n = 0 THEN DecodeError
             ELSE LET rest == DecodeUtf8(SubSeq(bs, n + 1, Len(bs)))
                  IN  IF rest = DecodeError THEN DecodeError ELSE <<c>> \o rest

Decode(bs, encoding) ==
    CASE encoding = "ascii"      -> DecodeAscii(bs)
      [] encoding = "ISO-8859-1" -> DecodeLatin1(bs)
      [] OTHER                   -> DecodeUtf8(bs)

\* The lines of a text, blank lines skipped (read_csv: skip_blank_lines=True).
RECURSIVE Lines(_, _)
Lines(cs, cur) ==
    IF cs = <<>> THEN (IF cur = <<>> THEN <<>> ELSE <<cur>>)
    ELSE IF Head(cs) = "LF"
         THEN (IF cur = <<>> THEN <<>> ELSE <<cur>>) \o Lines(Tail(cs), <<>>)
         ELSE Lines(Tail(cs), Append(cur, Head(cs)))

NoTable == [columns |-> <<>>, rows |-> <<>>]

(***************************************************************************)
(* pd.read_csv(source, encoding=encoding, low_memory=False) on the bytes   *)
(* `bs`: the first non-blank line is the header, the others are the rows.  *)
(* A byte the codec rejects raises UnicodeDecodeError; bytes without any   *)
(* line raise EmptyDataError ("No columns to parse from file").            *)
(***************************************************************************)
read_csv(bs, encoding) ==
    LET text == Decode(bs, encoding)
    IN  IF text = DecodeError
        THEN [ok |-> FALSE, error |-> "UnicodeDecodeError", table |-> NoTable]
        ELSE LET ls == Lines(text, <<>>)
             IN  IF ls = <<>>
                 THEN [ok |-> FALSE, error |-> "EmptyDataError", table |-> NoTable]
                 ELSE [ok |-> TRUE, error |-> "none",
                       table |-> [columns |-> <<Head(ls)>>, rows |-> Tail(ls)]]

(***************************************************************************)
(* pd.read_csv(source, encoding="utf-8", errors="replace", ...): read_csv  *)
(* has no parameter `errors` (the parameter is encoding_errors), so the    *)
(* call raises TypeError when its arguments are bound, before a byte is    *)
(* read.                                                                   *)
(***************************************************************************)
read_csv_errors_replace(bs) ==
    [ok |-> FALSE, error |-> "TypeError", table |-> NoTable]

\* chardet.detect(raw_bytes)["encoding"]: None for no bytes, else the guess
detect(raw) == IF raw = <<>> THEN "None" ELSE guess

\* The guesses chardet can make for a content: "ascii" exactly for pure
\* ASCII, "utf-8" only for valid UTF-8, ISO-8859-1 or nothing otherwise.
Guesses(bs) ==
    IF bs = <<>> THEN {"None"}
    ELSE IF DecodeAscii(bs) # DecodeError THEN {"ascii"}
    ELSE {"ISO-8859-1", "None"} \cup (IF DecodeUtf8(bs) # DecodeError THEN {"utf-8"} ELSE {})

\* detected.get("encoding") or "utf-8"
DefaultToAscii(label) == IF label = "None" THEN "ascii" ELSE label
encoding_or_default(label) == IF label = "None" THEN "utf-8" ELSE label

\* file_obj.seek(0) before the first parse (line 26)
NoSeek(p) == p
seek_before_parse(p) == 0

\* except Exception as e: raise ValueError(f"... {e}")   (lines 42-43)
WrapDecodeOnly(cause) ==
    [exc |-> IF cause \in {"UnicodeDecodeError", "TypeError"} THEN "ValueError" ELSE cause,
     cause |-> cause]
wrap_exception(cause) == [exc |-> "ValueError", cause |-> cause]

NoCall == [status |-> "none", source |-> "none", detected |-> "none",
           attempts |-> <<>>, table |-> NoTable, exc |-> "none", cause |-> "none",
           posAfter |-> 0]

Attempt(enc, start, input, res) ==
    [encoding |-> enc, start |-> start, input |-> input,
     outcome |-> IF res.ok THEN "table" ELSE res.error]

Rest(p) == SubSeq(content, p + 1, Len(content))

(***************************************************************************)
(* read_csv_any_encoding(file_obj), stream branch (lines 21-31, 42-43).    *)
(***************************************************************************)
LoadStreamResult ==
    LET raw_bytes == Rest(pos)                               \* line 23
        detected  == detect(raw_bytes)                       \* line 24
        encoding  == encoding_or_default(detected)           \* line 25
        p1        == seek_before_parse(Len(content))         \* line 26
        first     == read_csv(Rest(p1), encoding)            \* line 28
        a1        == Attempt(encoding, p1, Rest(p1), first)
        second    == read_csv_errors_replace(Rest(0))        \* lines 30-31
        a2        == Attempt("utf-8", 0, <<>>, second)
    IN  IF first.ok
        THEN [status |-> "table", source |-> "stream", detected |-> detected,
              attempts |-> <<a1>>, table |-> first.table, exc |-> "none",
              cause |-> "none", posAfter |-> Len(content)]
        ELSE IF first.error = "UnicodeDecodeError"
        THEN [status |-> "raise", source |-> "stream", detected |-> detected,
              attempts |-> <<a1, a2>>, table |-> NoTable,
              exc |-> wrap_exception(second.error).exc,
              cause |-> wrap_exception(second.error).cause, posAfter |-> 0]
        ELSE [status |-> "raise", source |-> "stream", detected |-> detected,
              attempts |-> <<a1>>, table |-> NoTable,
              exc |-> wrap_exception(first.error).exc,
              cause |-> wrap_exception(first.error).cause, posAfter |-> Len(content)]

LoadStream ==
    /\ kind = "stream"
    /\ last' = LoadStreamResult
    /\ prev' = last
    /\ pos' = LoadStreamResult.posAfter
    /\ UNCHANGED <<content, guess, kind, exists, seen>>
    /\ UNCHANGED <<answerVars, df, appVars>>

(***************************************************************************)
(* read_csv_any_encoding(file_obj), path branch (lines 33-43).             *)
(***************************************************************************)
LoadPathResult ==
    LET detected == detect(content)                          \* lines 34-36
        encoding == encoding_or_default(detected)            \* line 37
        first    == read_csv(content, encoding)              \* line 39
        a1       == Attempt(encoding, 0, content, first)
        second   == read_csv_errors_replace(content)         \* line 41
        a2       == Attempt("utf-8", 0, <<>>, second)
    IN  IF ~exists
        THEN [status |-> "raise", source |-> "path", detected |-> "none",
              attempts |-> <<>>, table |-> NoTable,
              exc |-> wrap_exception("FileNotFoundError").exc,
              cause |-> wrap_exception("FileNotFoundError").cause, posAfter |-> 0]
        ELSE IF first.ok
        THEN [status |-> "table", source |-> "path", detected |-> detected,
              attempts |-> <<a1>>, table |-> first.table, exc |-> "none",
              cause |-> "none", posAfter |-> 0]
        ELSE IF first.error = "UnicodeDecodeError"
        THEN [status |-> "raise", source |-> "path", detected |-> detected,
              attempts |-> <<a1, a2>>, table |-> NoTable,
              exc |-> wrap_exception(second.error).exc,
              cause |-> wrap_exception(second.error).cause, posAfter |-> 0]
        ELSE [status |-> "raise", source |-> "path", detected |-> detected,
              attempts |-> <<a1>>, table |-> NoTable,
              exc |-> wrap_exception(first.error).exc,
              cause |-> wrap_exception(first.error).cause, posAfter |-> 0]

LoadPath ==
    /\ kind = "path"
    /\ last' = LoadPathResult
    /\ prev' = last
    /\ UNCHANGED <<content, guess, kind, exists, pos, seen>>
    /\ UNCHANGED <<answerVars, df, appVars>>

\* The caller rewinds the stream: loaded_file.seek(0) (app.py 69, 113, 124).
CallerSeek ==
    /\ kind = "stream"
    /\ pos' = 0
    /\ last' = NoCall /\ prev' = NoCall
    /\ UNCHANGED <<content, guess, kind, exists, seen>>
    /\ UNCHANGED <<answerVars, df, appVars>>

\* The caller reads the stream itself, from where it stands to the end.
CallerRead ==
    /\ kind = "stream"
    /\ seen' = [after |-> last.status, bytes |-> Rest(pos)]
    /\ pos' = Len(content)
    /\ last' = NoCall /\ prev' = NoCall
    /\ UNCHANGED <<content, guess, kind, exists>>
    /\ UNCHANGED <<answerVars, df, appVars>>

NotRead == [after |-> "none", bytes |-> <<>>]


(***************************************************************************)
(* Strings of the answerer are sequences of characters, so that lower()    *)
(* and the substring test `in` are computed as Python computes them.       *)
(***************************************************************************)
UpperLetters == <<"A", "B", "C", "D", "E", "F", "G", "H", "I", "J", "K", "L", "M",
                  "N", "O", "P", "Q", "R", "S", "T", "U", "V", "W", "X", "Y", "Z">>
LowerLetters == <<"a", "b", "c", "d", "e", "f", "g", "h", "i", "j", "k", "l", "m",
                  "n", "o", "p", "q", "r", "s", "t", "u", "v", "w", "x", "y", "z">>

IndexIn(letters, c) == CHOOSE i \in 1..Len(letters) : letters[i] = c
IsIn(letters, c)    == \E i \in 1..Len(letters) : letters[i] = c

\* str.lower()
lower(s) ==
    [i \in 1..Len(s) |->
        IF IsIn(UpperLetters, s[i]) THEN LowerLetters[IndexIn(UpperLetters, s[i])] ELSE s[i]]

\* str.upper(), used to write the questions a user may type
upper(s) ==
    [i \in 1..Len(s) |->
        IF IsIn(LowerLetters, s[i]) THEN UpperLetters[IndexIn(LowerLetters, s[i])] ELSE s[i]]

\* every other letter in upper case, the first one included
alternate(s) == [i \in 1..Len(s) |-> IF i % 2 = 1 THEN upper(<<s[i]>>)[1] ELSE s[i]]

\* pattern in s
contains(s, pattern) ==
    \E i \in 0..(Len(s) - Len(pattern)) : SubSeq(s, i + 1, i + Len(pattern)) = pattern

AVERAGE_CLOSING_PRICE == <<"a", "v", "e", "r", "a", "g", "e", " ", "c", "l", "o", "s", "i", "n", "g", " ", "p", "r", "i", "c", "e">>
HIGHEST_PRICE  == <<"h", "i", "g", "h", "e", "s", "t", " ", "p", "r", "i", "c", "e">>
LOWEST_PRICE   == <<"l", "o", "w", "e", "s", "t", " ", "p", "r", "i", "c", "e">>
TRADING_VOLUME == <<"t", "r", "a", "d", "i", "n", "g", " ", "v", "o", "l", "u", "m", "e">>
TREND          == <<"t", "r", "e", "n", "d">>
PRICE          == <<"p", "r", "i", "c", "e">>
CORRELATION    == <<"c", "o", "r", "r", "e", "l", "a", "t", "i", "o", "n">>
WEATHER        == <<"w", "e", "a", "t", "h", "e", "r">>

(***************************************************************************)
(* Dataframes.  A column is absent, or holds float cells (<<v>> a number,  *)
(* <<>> a missing value, NaN), or holds text (dtype object).  Prices are   *)
(* whole numbers here; a mean is kept as the pair (sum, count).            *)
(***************************************************************************)
StockColumns == {"Close", "High", "Low", "Volume", "Open"}

Absent       == [dtype |-> "absent",  cells |-> <<>>]
Float(cells) == [dtype |-> "float64", cells |-> cells]
Text(cells)  == [dtype |-> "object",  cells |-> cells]

Rising  == << <<1>>, <<2>>, <<3>> >>
Falling == << <<3>>, <<1>>, <<1>> >>
Gappy   == << <<2>>, <<>>, <<3>> >>
Missing == << <<>>, <<>>, <<>> >>

\* the non-missing values of a float column
RECURSIVE Values(_)
Values(cells) ==
    IF cells = <<>> THEN <<>>
    ELSE (IF Head(cells) = <<>> THEN <<>> ELSE Head(cells)) \o Values(Tail(cells))

RECURSIVE Sum(_)
Sum(vs) == IF vs = <<>> THEN 0 ELSE Head(vs) + Sum(Tail(vs))

Max2(a, b) == IF a >= b THEN a ELSE b
Min2(a, b) == IF a <= b THEN a ELSE b
RECURSIVE MaxOf(_)
MaxOf(vs) == IF Len(vs) = 1 THEN vs[1] ELSE Max2(Head(vs), MaxOf(Tail(vs)))
RECURSIVE MinOf(_)
MinOf(vs) == IF Len(vs) = 1 THEN vs[1] ELSE Min2(Head(vs), MinOf(Tail(vs)))

Digits(n, width) ==
    IF width = 2 THEN ToString((n \div 10) % 10) \o ToString(n % 10)
    ELSE ToString((n \div 100) % 10) \o ToString((n \div 10) % 10) \o ToString(n % 10)

\* f"{num/den:.2f}" for num >= 0, den > 0: the nearest hundredth, a tie to
\* the even one (a tie needs a column of 8 rows or more).
Format2(num, den) ==
    LET q == (100 * num) \div den
        r == (100 * num) % den
        h == IF 2 * r > den \/ (2 * r = den /\ q % 2 = 1) THEN q + 1 ELSE q
    IN  ToString(h \div 100) \o "." \o Digits(h % 100, 2)

\* the largest m in lo..hi with m * m * d <= n
RECURSIVE RootBelow(_, _, _, _)
RootBelow(n, d, lo, hi) ==
    IF lo = hi THEN lo
    ELSE LET mid == (lo + hi + 1) \div 2
         IN  IF mid * mid * d <= n THEN RootBelow(n, d, mid, hi)
                                   ELSE RootBelow(n, d, lo, mid - 1)

\* the rows where both cells are present, as pairs <<x, y>>
RECURSIVE Pairs(_, _)
Pairs(xs, ys) ==
    IF xs = <<>> \/ ys = <<>> THEN <<>>
    ELSE (IF Head(xs) # <<>> /\ Head(ys) # <<>> THEN << <<Head(xs)[1], Head(ys)[1]>> >> ELSE <<>>)
         \o Pairs(Tail(xs), Tail(ys))

\* the sum over the pairs of p[a] * p[b], an index 0 standing for the factor 1
RECURSIVE SumProd(_, _, _)
SumProd(ps, a, b) ==
    IF ps = <<>> THEN 0
    ELSE (IF a = 0 THEN 1 ELSE Head(ps)[a]) * (IF b = 0 THEN 1 ELSE Head(ps)[b])
         + SumProd(Tail(ps), a, b)

(***************************************************************************)
(* Series.corr: Pearson's r over the rows where both cells are present,    *)
(* NaN with fewer than two such rows or when a side does not vary.         *)
(* The result is r in thousandths, as f"{r:.3f}" rounds it.                *)
(***************************************************************************)
corr(xs, ys) ==
    LET ps  == Pairs(xs, ys)
        n   == Len(ps)
        cov == n * SumProd(ps, 1, 2) - SumProd(ps, 1, 0) * SumProd(ps, 2, 0)
        vx  == n * SumProd(ps, 1, 1) - SumProd(ps, 1, 0) * SumProd(ps, 1, 0)
        vy  == n * SumProd(ps, 2, 2) - SumProd(ps, 2, 0) * SumProd(ps, 2, 0)
    IN  IF n < 2 \/ vx = 0 \/ vy = 0 THEN [nan |-> TRUE, negative |-> FALSE, thousandths |-> 0]
        ELSE LET m == RootBelow(4000000 * cov * cov, vx * vy, 0, 2000)
             IN  [nan |-> FALSE, negative |-> cov < 0, thousandths |-> (m + 1) \div 2]

Format3(r) ==
    IF r.nan THEN "nan"
    ELSE (IF r.negative /\ r.thousandths > 0 THEN "-" ELSE "")
         \o ToString(r.thousandths \div 1000) \o "." \o Digits(r.thousandths % 1000, 3)

Returned(text) == [raised |-> "none", text |-> text]
Raised(exc)    == [raised |-> exc, text |-> ""]

\* f"{prefix}{df[name].mean():.2f}"
MeanAnswer(prefix, frame, name) ==
    LET col == frame[name]
        vs  == Values(col.cells)
    IN  IF col.dtype = "absent" THEN Raised("KeyError")
        ELSE IF col.dtype = "object" THEN Raised("TypeError")
        ELSE IF vs = <<>> THEN Returned(prefix \o "nan")
        ELSE Returned(prefix \o Format2(Sum(vs), Len(vs)))

\* f"{prefix}{df[name].max():.2f}" and the same with min(); the largest of
\* a text column is a str, which the format code f rejects (ValueError)
ExtremeAnswer(prefix, frame, name, largest) ==
    LET col == frame[name]
        vs  == Values(col.cells)
    IN  IF col.dtype = "absent" THEN Raised("KeyError")
        ELSE IF col.dtype = "object" THEN Raised("ValueError")
        ELSE IF vs = <<>> THEN Returned(prefix \o "nan")
        ELSE Returned(prefix \o Format2(IF largest THEN MaxOf(vs) ELSE MinOf(vs), 1))

\* f"{prefix}{df['Open'].corr(df['Close']):.3f}"
CorrAnswer(prefix, frame) ==
    IF frame["Open"].dtype = "absent" \/ frame["Close"].dtype = "absent" THEN Raised("KeyError")
    ELSE IF frame["Open"].dtype = "object" \/ frame["Close"].dtype = "object"
    THEN Raised("TypeError")
    ELSE Returned(prefix \o Format3(corr(frame["Open"].cells, frame["Close"].cells)))

TrendSentence ==
    "Trend analysis can be visualized through a line chart showing closing prices over time."
NotAvailable == "Answer not available for this question."

\* question = question.lower()   (line 10)
normalise(q) == lower(q)

(***************************************************************************)
(* get_answer_to_question(question, df)   (app.py 9-24)                    *)
(***************************************************************************)
TrendAfterCorrelation(q0, frame) ==
    LET q == normalise(q0)
    IN  IF contains(q, AVERAGE_CLOSING_PRICE)
        THEN MeanAnswer("The average closing price is ", frame, "Close")
        ELSE IF contains(q, HIGHEST_PRICE)
        THEN ExtremeAnswer("The highest price recorded is ", frame, "High", TRUE)
        ELSE IF contains(q, LOWEST_PRICE)
        THEN ExtremeAnswer("The lowest price recorded is ", frame, "Low", FALSE)
        ELSE IF contains(q, TRADING_VOLUME)
        THEN MeanAnswer("The average trading volume is ", frame, "Volume")
        ELSE IF contains(q, CORRELATION) /\ contains(q, PRICE)
        THEN CorrAnswer("The correlation between opening and closing prices is ", frame)
        ELSE IF contains(q, TREND) /\ contains(q, PRICE)
        THEN Returned(TrendSentence)
        ELSE Returned(NotAvailable)

get_answer_to_question(q0, frame) ==
    LET q == normalise(q0)
    IN  IF contains(q, AVERAGE_CLOSING_PRICE)
        THEN MeanAnswer("The average closing price is ", frame, "Close")
        ELSE IF contains(q, HIGHEST_PRICE)
        THEN ExtremeAnswer("The highest price recorded is ", frame, "High", TRUE)
        ELSE IF contains(q, LOWEST_PRICE)
        THEN ExtremeAnswer("The lowest price recorded is ", frame, "Low", FALSE)
        ELSE IF contains(q, TRADING_VOLUME)
        THEN MeanAnswer("The average trading volume is ", frame, "Volume")
        ELSE IF contains(q, TREND) /\ contains(q, PRICE)
        THEN Returned(TrendSentence)
        ELSE IF contains(q, CORRELATION) /\ contains(q, PRICE)
        THEN CorrAnswer("The correlation between opening and closing prices is ", frame)
        ELSE Returned(NotAvailable)

NotAsked == [raised |-> "none", text |-> "not asked"]

\* One call of get_answer_to_question on the question and the dataframe.
Ask ==
    /\ answer = NotAsked
    /\ answer' = get_answer_to_question(question, df)
    /\ UNCHANGED <<question, df, loadVars, appVars>>


(***************************************************************************)
(* The questions and dataframes the answerer is tried on: up to MaxWords   *)
(* of the pattern words joined by blanks, in lower case and in mixed        *)
(* case; dataframes with every stock column, with one missing and with     *)
(* none, over numeric, partly missing, all-missing, text and empty columns. *)
(***************************************************************************)
MaxWords == 3

Words == {AVERAGE_CLOSING_PRICE, HIGHEST_PRICE, LOWEST_PRICE, TRADING_VOLUME,
          TREND, PRICE, CORRELATION}

RECURSIVE Phrases(_)
Phrases(n) ==
    IF n = 1 THEN Words
    ELSE Phrases(n - 1)
         \cup {p \o <<" ">> \o w : p \in {t \in Phrases(n - 1) : TRUE}, w \in Words}

Questions == UNION {{p, alternate(p)} : p \in Phrases(MaxWords)}

ColumnPairs ==
    { <<Float(Rising),  Float(Rising)>>,
      <<Float(Rising),  Float(Falling)>>,
      <<Float(Gappy),   Float(Rising)>>,
      <<Float(Missing), Float(Missing)>>,
      <<Text(Rising),   Text(Rising)>>,
      <<Float(<<>>),    Float(<<>>)>> }

MakeFrame(missing, pair) ==
    [c \in StockColumns |->
        IF c \in missing THEN Absent ELSE IF c = "Open" THEN pair[2] ELSE pair[1]]

Frames ==
    {MakeFrame(missing, pair) :
        missing \in {{}, {"Close"}, {"High"}, {"Open"}, StockColumns},
        pair \in ColumnPairs}

(***************************************************************************)
(* The script of app.py, once a dataset is loaded (lines 65-178).          *)
(***************************************************************************)
MaxClicks == 2

Blank == <<>>
UserTexts == {Blank, <<" ">>, <<" ">> \o upper(HIGHEST_PRICE) \o <<" ">>,
              PRICE \o <<" ">> \o TREND}

DefaultTitle == "Data Analysis Summary Report"
Titles == {DefaultTitle, "Q3"}

\* the characters of a column name
NameChars(c) ==
    CASE c = "Close"  -> <<"C", "l", "o", "s", "e">>
      [] c = "High"   -> <<"H", "i", "g", "h">>
      [] c = "Low"    -> <<"L", "o", "w">>
      [] c = "Volume" -> <<"V", "o", "l", "u", "m", "e">>
      [] c = "Open"   -> <<"O", "p", "e", "n">>

\* dataframe.columns
columns(frame) == {NameChars(c) : c \in {k \in StockColumns : frame[k].dtype # "absent"}}

FeatureNames == {Blank, NameChars("Volume"), lower(NameChars("Volume")), WEATHER}

\* variable in dataframe.columns: the Index holds the name itself
InIgnoringCase(cols, variable) == \E c \in cols : lower(c) = lower(variable)
column_in(cols, variable) == variable \in cols

NotExplored == [called |-> FALSE, variable |-> Blank, events |-> <<>>, raised |-> "none"]

(***************************************************************************)
(* explore_variable(data_file, variable)   (app.py 111-126).  Both loads   *)
(* read the uploaded file from its start (seek(0), lines 113 and 124);     *)
(* `agentOk` is whether the language-model agent behind analyze_trend      *)
(* answers.                                                                *)
(***************************************************************************)
explore_variable(frame, variable, agentOk) ==
    IF variable # Blank /\ column_in(columns(frame), variable)
    THEN IF agentOk
         THEN [called |-> TRUE, variable |-> variable, raised |-> "none",
               events |-> <<"bar_chart", "divider", "analyze_trend", "success">>]
         ELSE [called |-> TRUE, variable |-> variable, raised |-> "ValueError",
               events |-> <<"bar_chart", "divider", "analyze_trend">>]
    ELSE [called |-> TRUE, variable |-> variable, raised |-> "none",
          events |-> <<"warning">>]

\* str.strip(): without the blanks at both ends
RECURSIVE lstrip(_)
lstrip(s) == IF s # <<>> /\ Head(s) = " " THEN lstrip(Tail(s)) ELSE s
RECURSIVE rstrip(_)
rstrip(s) == IF s # <<>> /\ s[Len(s)] = " " THEN rstrip(SubSeq(s, 1, Len(s) - 1)) ELSE s
strip(s) == rstrip(lstrip(s))

\* the characters as one string
RECURSIVE Str(_)
Str(cs) == IF cs = <<>> THEN "" ELSE Head(cs) \o Str(Tail(cs))

(***************************************************************************)
(* Lines 152-157: for idx, question in enumerate(questions[3:], start=4):  *)
(*     questions[idx] = st.text_input(..., value=question, ...)            *)
(* `j` is the Python index of the item the loop is at (from 3), `n` the    *)
(* length of the list the slice was taken from; the item at j is written   *)
(* to Python index idx = j + 1.  vals[j] is what the text input returns.   *)
(* A Python index k is position k + 1 of the sequence.                     *)
(***************************************************************************)
target_index(j) == j + 1

RECURSIVE extra_loop(_, _, _, _, _)
extra_loop(qs, j, n, vals, writes) ==
    IF j >= n THEN [qs |-> qs, writes |-> writes, raised |-> "none"]
    ELSE LET idx == target_index(j)
             w   == [item |-> j, idx |-> idx]
         IN  IF idx >= Len(qs)
             THEN [qs |-> qs, writes |-> Append(writes, w), raised |-> "IndexError"]
             ELSE extra_loop([qs EXCEPT ![idx + 1] = vals[j]], j + 1, n, vals,
                             Append(writes, w))

(***************************************************************************)
(* Lines 164-170: the report text, or the exception of the first answer    *)
(* that raises.                                                            *)
(***************************************************************************)
RECURSIVE report_blocks(_, _)
report_blocks(qs, frame) ==
    IF qs = <<>> THEN Returned("")
    ELSE LET q == Head(qs)
         IN  IF strip(q) = <<>> THEN report_blocks(Tail(qs), frame)
             ELSE LET a == get_answer_to_question(q, frame)
                  IN  IF a.raised # "none" THEN a
                      ELSE LET rest == report_blocks(Tail(qs), frame)
                           IN  IF rest.raised # "none" THEN rest
                               ELSE Returned("Q: " \o Str(q) \o "\nA: " \o a.text \o "\n\n"
                                             \o rest.text)

report_content(t, qs, frame) ==
    LET blocks == report_blocks(qs, frame)
    IN  IF blocks.raised # "none" THEN blocks
        ELSE Returned("Title: " \o t \o "\n\n" \o blocks.text)

NoReport == [made |-> FALSE, raised |-> "none", text |-> ""]
NoRun    == [event |-> "none", writes |-> <<>>, raised |-> "none"]

\* The Python indexes the loop of lines 152-157 is at when it assigns
\* within the list: the values of the other text inputs are not stored.
StoredIndexes(qs) == {j \in 3..(Len(qs) - 1) : target_index(j) < Len(qs)}

(***************************************************************************)
(* The question section of one script run (lines 142-178) from the list    *)
(* `qs` as the first loop (142-147) left it: the append of "Add Question", *)
(* the loop over the questions beyond the third, then the report.  A text  *)
(* input returns what the user last typed into it, any text.  An           *)
(* exception ends the run; what was assigned before it stays.              *)
(***************************************************************************)
QuestionSection(event, qs) ==
    LET added == IF event = "add" THEN Append(qs, Blank) ELSE qs       \* 149-150
    IN  \E vals \in [StoredIndexes(added) -> UserTexts] :
        LET loop == extra_loop(added, 3, Len(added), vals, <<>>)     \* 152-157
            text == report_content(title, loop.qs, df)               \* 164-170
        IN  /\ questions' = loop.qs
            /\ clicks' = IF event = "add" THEN clicks + 1 ELSE clicks
            /\ IF loop.raised # "none"
               THEN /\ run' = [event |-> event, writes |-> loop.writes,
                               raised |-> loop.raised]
                    /\ report' = NoReport
               ELSE IF event = "generate"
               THEN /\ run' = [event |-> event, writes |-> loop.writes,
                               raised |-> text.raised]
                    /\ report' = [made |-> text.raised = "none", raised |-> text.raised,
                                  text |-> text.text]
               ELSE /\ run' = [event |-> event, writes |-> loop.writes,
                               raised |-> "none"]
                    /\ report' = NoReport

\* The user types `txt` into one of the first three question inputs.
EditQuestion ==
    \E i \in 1..3, txt \in UserTexts :
        /\ txt # questions[i]
        /\ QuestionSection("edit", [questions EXCEPT ![i] = txt])
        /\ explored' = NotExplored
        /\ UNCHANGED <<title, df, loadVars, answerVars>>

\* The user clicks "Add Question".
AddQuestion ==
    /\ clicks < MaxClicks
    /\ QuestionSection("add", questions)
    /\ explored' = NotExplored
    /\ UNCHANGED <<title, df, loadVars, answerVars>>

\* The user clicks "Generate Report".
GenerateReport ==
    /\ QuestionSection("generate", questions)
    /\ explored' = NotExplored
    /\ UNCHANGED <<title, df, loadVars, answerVars>>

\* The user enters a feature name and clicks "Examine Feature" (line 128:
\* explore_variable is called for a non-empty name only).  When the trend
\* analysis raises, the run ends before the question section.
ExamineFeature ==
    \E variable \in FeatureNames \ {Blank}, agentOk \in BOOLEAN :
        LET result == explore_variable(df, variable, agentOk)
        IN  /\ explored' = result
            /\ IF result.raised # "none"
               THEN /\ run' = [event |-> "examine", writes |-> <<>>,
                               raised |-> result.raised]
                    /\ report' = NoReport
                    /\ UNCHANGED <<questions, clicks>>
               ELSE QuestionSection("examine", questions)
            /\ UNCHANGED <<title, df, loadVars, answerVars>>

(***************************************************************************)
(* The three specifications.                                               *)
(***************************************************************************)
IdleLoad ==
    /\ content = <<>> /\ guess = "None" /\ kind = "none" /\ exists = FALSE
    /\ pos = 0 /\ last = NoCall /\ prev = NoCall /\ seen = NotRead

IdleAnswer == question = Blank /\ answer = NotAsked

IdleApp ==
    /\ questions = <<>> /\ clicks = 0 /\ title = "" /\ run = NoRun
    /\ explored = NotExplored /\ report = NoReport

NoFrame == [c \in StockColumns |-> Absent]

InitLoad ==
    /\ content \in Contents
    /\ guess \in Guesses(content)
    /\ kind \in {"stream", "path"}
    /\ exists \in BOOLEAN
    /\ (kind = "stream" \/ ~exists) => (exists <=> kind = "stream")
    /\ (kind = "path" /\ ~exists) => content = <<>>
    /\ pos = 0 /\ last = NoCall /\ prev = NoCall /\ seen = NotRead
    /\ df = NoFrame
    /\ IdleAnswer /\ IdleApp

NextLoad ==
    \/ LoadStream
    \/ LoadPath
    \/ CallerSeek
    \/ CallerRead

SpecLoad == InitLoad /\ [][NextLoad]_vars

InitAnswer ==
    /\ question \in Questions
    /\ df \in Frames
    /\ answer = NotAsked
    /\ IdleLoad /\ IdleApp

NextAnswer == Ask

SpecAnswer == InitAnswer /\ [][NextAnswer]_vars

AppFrames ==
    {MakeFrame(missing, pair) :
        missing \in {{}, {"High"}, {"Volume"}},
        pair \in {<<Float(Rising), Float(Falling)>>}}

InitApp ==
    /\ questions = [i \in 1..3 |-> Blank]
    /\ clicks = 0
    /\ title \in Titles
    /\ df \in AppFrames
    /\ run = NoRun /\ explored = NotExplored /\ report = NoReport
    /\ IdleLoad /\ IdleAnswer

NextApp ==
    \/ EditQuestion
    \/ AddQuestion
    \/ GenerateReport
    \/ ExamineFeature

SpecApp == InitApp /\ [][NextApp]_vars


(***************************************************************************)
(*                              The claims                                 *)
(***************************************************************************)

Called == last.status # "none"

C4_RepeatedLoadSameTable ==
    prev.status = "table" => (last.status = "table" /\ last.table = prev.table)

\* C5: when the parse with the detected encoding raises a decode error, the
\* loader parses again from the start with utf-8 and replacement, and that
\* attempt returns a table.
C5_FallbackReturnsTable ==
    (Called /\ Len(last.attempts) >= 1 /\ last.attempts[1].outcome = "UnicodeDecodeError")
        => /\ Len(last.attempts) = 2
           /\ last.attempts[2].encoding = "utf-8" /\ last.attempts[2].start = 0
           /\ last.status = "table"

\* C6, as stated: the loader raises ValueError, carrying the cause, only
\* after the fallback parse was attempted.
C6_RaisesOnlyAfterFallback ==
    last.status = "raise" =>
        /\ last.exc = "ValueError" /\ last.cause # "none"
        /\ Len(last.attempts) = 2

\* C6, amended: whatever step of the loader fails (opening the file, the
\* first parse, the fallback parse), the loader raises ValueError carrying
\* the exception of that step, and a decode error of the first parse is
\* never what it reports.
C6_EveryFailureIsValueError ==
    last.status = "raise" =>
        /\ last.exc = "ValueError"
        /\ last.cause = (IF last.attempts = <<>> THEN "FileNotFoundError"
                         ELSE last.attempts[Len(last.attempts)].outcome)
        /\ last.cause \in {"FileNotFoundError", "EmptyDataError", "TypeError"}

C6_Witness == last.status = "raise" /\ Len(last.attempts) < 2 /\ last.exc = "ValueError"

\* C8: when the detector gives no label, the first parse uses utf-8, and
\* the load succeeds whenever the bytes are a CSV in utf-8: on a stream and
\* on a path.
C8_NoLabelDefaultsToUtf8 ==
    (Called /\ last.detected = "None") =>
        /\ last.attempts # <<>>
        /\ last.attempts[1].encoding = "utf-8"
        /\ (DecodeUtf8(content) # DecodeError /\ Lines(DecodeUtf8(content), <<>>) # <<>>)
              => last.status = "table"

C8_Witness == Called /\ last.detected = "None" /\ last.status = "table" /\ last.source = "path"

\* The patterns in their order of priority, 7 standing for no pattern.
Matches(i, q) ==
    CASE i = 1 -> contains(q, AVERAGE_CLOSING_PRICE)
      [] i = 2 -> contains(q, HIGHEST_PRICE)
      [] i = 3 -> contains(q, LOWEST_PRICE)
      [] i = 4 -> contains(q, TRADING_VOLUME)
      [] i = 5 -> contains(q, TREND) /\ contains(q, PRICE)
      [] i = 6 -> contains(q, CORRELATION) /\ contains(q, PRICE)
      [] OTHER -> TRUE

FirstMatch(q) == CHOOSE i \in 1..7 : Matches(i, q) /\ \A k \in 1..(i - 1) : ~Matches(k, q)

PatternOutcome(i, frame) ==
    CASE i = 1 -> MeanAnswer("The average closing price is ", frame, "Close")
      [] i = 2 -> ExtremeAnswer("The highest price recorded is ", frame, "High", TRUE)
      [] i = 3 -> ExtremeAnswer("The lowest price recorded is ", frame, "Low", FALSE)
      [] i = 4 -> MeanAnswer("The average trading volume is ", frame, "Volume")
      [] i = 5 -> Returned(TrendSentence)
      [] i = 6 -> CorrAnswer("The correlation between opening and closing prices is ", frame)
      [] OTHER -> Returned(NotAvailable)

Asked == answer # NotAsked

\* C1: the answer is that of the first pattern, in the order 1..6, that the
\* lower-cased question contains; with "trend", "correlation" and "price"
\* (and none of the patterns 1-4) it is the trend sentence, with no pattern
\* it is the not-available sentence, and the question in another letter
\* case gets the same answer.
C1_FirstMatchWins ==
    Asked =>
        LET q == lower(question)
            first == FirstMatch(q)
        IN  /\ answer = PatternOutcome(first, df)
            /\ (contains(q, TREND) /\ contains(q, CORRELATION) /\ contains(q, PRICE)
                /\ first >= 5) => answer = Returned(TrendSentence)
            /\ first = 7 => answer = Returned(NotAvailable)
            /\ get_answer_to_question(upper(question), df) = answer
            /\ get_answer_to_question(lower(question), df) = answer

C1_Witness ==
    /\ Asked /\ question # lower(question)
    /\ contains(lower(question), TREND) /\ contains(lower(question), CORRELATION)
    /\ FirstMatch(lower(question)) = 5
    /\ answer = Returned(TrendSentence)

DiagnosticFailure == "Unable to compute this question - column may not exist."

RequiredColumns(i) ==
    CASE i = 1 -> {"Close"}
      [] i = 2 -> {"High"}
      [] i = 3 -> {"Low"}
      [] i = 4 -> {"Volume"}
      [] i = 6 -> {"Open", "Close"}
      [] OTHER -> {}

NoNumericValues(col) == col.dtype # "float64" \/ Values(col.cells) = <<>>

\* C2: for a question of an arithmetic pattern whose required column is
\* absent or holds no numeric value, the answerer returns the diagnostic
\* failure string and raises nothing.
C2_MissingColumnGivesDiagnostic ==
    (Asked /\ \E c \in RequiredColumns(FirstMatch(lower(question))) : NoNumericValues(df[c]))
        => answer = Returned(DiagnosticFailure)

\* What the examine-feature path must render for the name `variable`.
TwoOutcomes(frame, variable, events) ==
    IF variable \in columns(frame)
    THEN /\ Len(events) >= 3
         /\ events[1] = "bar_chart" /\ events[3] = "analyze_trend"
         /\ \A i \in 1..Len(events) : events[i] # "warning"
    ELSE events = <<"warning">>

C9_ExtraQuestionWrites ==
    /\ Len(questions) = 3 + clicks
    /\ run.raised # "IndexError"
    /\ \A i \in 1..Len(run.writes) :
          run.writes[i].idx = run.writes[i].item /\ run.writes[i].idx < Len(questions)

\* The report the claim describes: the title line, then one block for each
\* question that is not blank, in the order of the list.
RECURSIVE ExpectedBlocks(_, _)
ExpectedBlocks(qs, frame) ==
    IF qs = <<>> THEN ""
    ELSE (IF strip(Head(qs)) = <<>> THEN ""
          ELSE "Q: " \o Str(Head(qs)) \o "\nA: "
               \o get_answer_to_question(Head(qs), frame).text \o "\n\n")
         \o ExpectedBlocks(Tail(qs), frame)

\* C10: a run of "Generate Report" that reaches the report (the list has
\* its three initial questions) produces the title line followed by one
\* block for each question that is not blank.
C10_ReportForEveryQuestion ==
    (run.event = "generate" /\ Len(questions) = 3) =>
        /\ report.made
        /\ report.text = "Title: " \o title \o "\n\n" \o ExpectedBlocks(questions, df)

====
